---- MODULE Spec2Model ----
(***************************************************************************)
(* A model of the pyalex/hipchat XMPP client: the handshake               *)
(* (Client.authenticate), the read loop (Client.listen) and the paged     *)
(* archive fetch (Client.LoadHistory) over the xmpp.Conn transport.       *)
(*                                                                         *)
(* The repository holds two handshake snapshots.  variant = "iq" is       *)
(* src/hipchat.go with src/xmpp/xmpp.go (plaintext IQ auth); variant =    *)
(* "sasl" is src/unnamed/part_001 with src/unnamed/part_000 (SASL PLAIN,  *)
(* bind, session).  The read loop and LoadHistory are those of            *)
(* src/unnamed/part_001, lines 336-676, the snapshot with historyLock.    *)
(***************************************************************************)
EXTENDS Integers, Sequences, FiniteSets, TLC

\* ------------------------------------------------------------------ bounds
\* Elements the handshake reads before the model stops feeding it.
MaxReads == 4
\* Longest mechanism list a features element carries.
MaxMechs == 2
\* Elements the read loop reads before the model stops feeding it.
MaxListenReads == 3
\* Tasks calling LoadHistory, and the calls each makes.
NCallers == 2
MaxCalls == 2
\* Longest accumulation buffer: no archive result is fed beyond it.
MaxBuf == 2
\* Capacities of the receivedMessage and receivedRooms channels (20 and 10
\* in NewClient), scaled down so that a full channel is reached.
MessageChanCap == 2
RoomsChanCap == 1
\* Calls of Conn.Next, the handshakes of reconnect included, before the
\* model stops feeding the read loop of src/hipchat.go.
MaxLiveReads == 4
\* The five minutes of AliveChecker's time.After, in ticks.
AliveWindow == 1
\* Failed reads the model feeds the read loop of src/hipchat.go: each one
\* starts a reconnect.
MaxReconnects == 1
\* Rooms() and Users() calls the application makes, all tasks together.
MaxQueries == 1
\* Longest username and longest password, in bytes.
MaxCred == 2
\* Room joins the ticker of KeepAlive writes.
MaxJoins == 1

\* --------------------------------------------------------------- constants
NsJabberClient == "jabber:client"
NsStream == "http://etherx.jabber.org/streams"
NsIqAuth == "jabber:iq:auth"
NsTLS == "urn:ietf:params:xml:ns:xmpp-tls"
NsSASL == "urn:ietf:params:xml:ns:xmpp-sasl"
NsBind == "urn:ietf:params:xml:ns:xmpp-bind"
NsSession == "urn:ietf:params:xml:ns:xmpp-session"
Host == "chat.hipchat.com"

\* The credentials of the example program.
User == "11111_22222"
Pass == "secret"
Resource == "bot"

Variants == {"iq", "sasl"}

VARIABLES
  variant,     \* which handshake snapshot runs
  connection,  \* Client.connection: [outgoing, incoming]
  out,         \* every write handed to the transport, in order
  apc,         \* authenticate: "start", "loop" or "returned"
  err,         \* authenticate's return value once returned
  element,     \* the start element the last Conn.Next returned
  features,    \* the features element the last Conn.Features decoded from
  last,        \* the switch case the last handshake step took
  lastRead,    \* the decoder the last Conn.Next read from
  nread,       \* number of Conn.Next calls so far
  lpc,             \* listen: where the reader task stands
  m,               \* listen: the message it decoded and is handling
  heap,            \* the backing arrays of the []Message slices
  messageBuffer,   \* Client.messageBuffer: a slice [array, len]
  historyLock,     \* Client.historyLock: number of buffered values
  receivedMessage, \* Client.receivedMessage: the buffered values
  receivedRooms,   \* Client.receivedRooms: the buffered values
  Closed,          \* Client.Closed
  pc,              \* LoadHistory callers: where each stands
  ret,             \* the slice each caller's last LoadHistory returned
  calls,           \* LoadHistory calls each caller has started
  win,             \* per caller in flight: the archive results read
                   \* since its query was written
  npc,             \* NewClient: "dial", "auth" or "returned"
  nerr,            \* NewClient's returned error once returned
  closed,          \* the sockets Close has been called on
  kpc,             \* AliveChecker: "off", "select", "leave" or "close"
  kconn,           \* AliveChecker: the transport it loaded from c.connection
  window,          \* ticks since AliveChecker entered its select
  inbox,           \* what the application received from Messages()
  notified         \* receives from OnReconnect

\* What NewClient and the tasks around the read loop keep.
liveVars == <<closed, kpc, kconn, window, inbox, notified>>
sessVars == <<npc, nerr, liveVars>>

histVars == <<lpc, m, heap, messageBuffer, historyLock, receivedMessage,
              receivedRooms, Closed, pc, ret, calls, win, sessVars>>

vars == <<variant, connection, out, apc, err, element, features, last,
          lastRead, nread, histVars>>

\* ---------------------------------------------------------- xmpp.Conn
\* net.Dial followed by xml.NewDecoder(outgoing): the decoder reads from the
\* transport it was built over.  layers counts the TLS wrappers around the
\* socket.
Dial == LET outgoing == [fd |-> 1, layers |-> 0]
        IN [outgoing |-> outgoing, incoming |-> [over |-> outgoing]]

\* new(Conn): no transport, no decoder.
NoSocket == [fd |-> 0, layers |-> 0]
NewConn == [outgoing |-> NoSocket, incoming |-> [over |-> NoSocket]]

\* A UseTLS that keeps the old decoder.
UseTLSKeepDecoder(c) ==
  [c EXCEPT !.outgoing = [c.outgoing EXCEPT !.layers = @ + 1]]

\* tls.Client wraps the current transport, then the decoder is rebuilt over
\* the wrapped transport.
UseTLS(c) ==
  LET outgoing == [c.outgoing EXCEPT !.layers = @ + 1]
  IN [outgoing |-> outgoing, incoming |-> [over |-> outgoing]]

\* fmt.Fprintf(c.outgoing, ...): the stanza goes to the connection's current
\* transport.  Write errors are dropped by the code.
Write(c, log, stanza) == Append(log, [stanza |-> stanza, via |-> c.outgoing])

\* The rendered requests, as the template name and its parameters.  The
\* random id() of bind, session and IQ auth is left out, and the body of the
\* SASL auth request is kept as the credential pair it encodes.
xmlStream(jid, host) ==
  [kind |-> "stream", from |-> jid, to |-> host,
   xmlns |-> NsJabberClient, xmlns_stream |-> NsStream]
xmlStartTLS == [kind |-> "starttls", xmlns |-> NsTLS]
xmlAuth(user, pass) ==
  [kind |-> "auth", xmlns |-> NsSASL, mechanism |-> "PLAIN",
   user |-> user, pass |-> pass]
xmlIqSet(user, pass, resource) ==
  [kind |-> "iq-auth", xmlns |-> NsIqAuth, username |-> user,
   password |-> pass, resource |-> resource]
xmlIqBind(resource) == [kind |-> "bind", xmlns |-> NsBind, resource |-> resource]
xmlStartSession == [kind |-> "session", xmlns |-> NsSession]

\* Conn.Auth of the snapshot that runs.
Auth(v, user, pass, resource) ==
  IF v = "sasl" THEN xmlAuth(user, pass) ELSE xmlIqSet(user, pass, resource)

\* Client.Id
Id == User \o "@" \o Host

\* ------------------------------------------------------- inbound elements
\* xml.StartElement: Name, Attr, and whether the element is a child of the
\* stream root (the code never looks at the depth).
Attr(space, local, value) ==
  [Name |-> [Space |-> space, Local |-> local], Value |-> value]

El(local, space, attr, top) ==
  [Name |-> [Local |-> local, Space |-> space], Attr |-> attr, top |-> top]

\* The elements the server is modelled to send: every element the handshake
\* names, an iq with each shape of attribute list, elements of other names
\* and namespaces, an element without a local name, and nested elements.
Elements ==
  { El("stream", NsStream, <<>>, TRUE),
    El("features", NsStream, <<>>, TRUE),
    El("proceed", NsTLS, <<>>, TRUE),
    El("success", NsSASL, <<>>, TRUE),
    El("failure", NsSASL, <<>>, TRUE),
    El("iq", NsJabberClient, <<>>, TRUE),
    El("iq", NsJabberClient, <<Attr("", "type", "result")>>, TRUE),
    El("iq", NsJabberClient, <<Attr("", "type", "error")>>, TRUE),
    El("iq", NsJabberClient,
       <<Attr("", "id", "result"), Attr("", "type", "result")>>, TRUE),
    El("iq", NsJabberClient,
       <<Attr("", "type", "error"), Attr("urn:x", "type", "result")>>, TRUE),
    El("iq", "jabber:server", <<Attr("", "type", "result")>>, TRUE),
    El("message", NsJabberClient, <<Attr("", "type", "result")>>, TRUE),
    El("presence", NsJabberClient, <<>>, TRUE),
    El("i", "qjabber:client", <<Attr("", "type", "result")>>, TRUE),
    El("i", "qjabber:client", <<Attr("", "type", "error")>>, TRUE),
    El("", "", <<>>, TRUE),
    El("iq", NsJabberClient, <<Attr("", "type", "result")>>, FALSE),
    El("body", NsJabberClient, <<>>, FALSE) }

ZeroElement == [Name |-> [Local |-> "", Space |-> ""], Attr |-> <<>>, top |-> TRUE]

\* What the token loop of Conn.Next meets first: a decoder error, or a start
\* element.
Tokens ==
  {[err |-> "EOF", element |-> ZeroElement]}
    \cup {[err |-> "nil", element |-> e] : e \in Elements}

\* A Next that hands an element without a local name to its caller.
ConnNextSkipEmpty(t) ==
  IF t.err # "nil" THEN [element |-> ZeroElement, err |-> t.err]
  ELSE [element |-> t.element, err |-> "nil"]

\* Conn.Next
ConnNext(t) ==
  IF t.err # "nil" THEN [element |-> ZeroElement, err |-> t.err]
  ELSE IF t.element.Name.Local = ""
    THEN [element |-> t.element, err |-> "invalid xml response"]
    ELSE [element |-> t.element, err |-> "nil"]

\* The features element on the wire: <starttls> absent, present, or present
\* with a <required/> child; the <mechanism> children in document order.
Mechanisms == {"PLAIN", "DIGEST-MD5"}
MechLists == UNION {[1..n -> Mechanisms] : n \in 0..MaxMechs}
WireFeatures == [starttls : {"absent", "offered", "required"}, mechanisms : MechLists]
NoFeatures == [starttls |-> "absent", mechanisms |-> <<>>]

\* Conn.Features: StartTLS is non-nil only for the path starttls>required.
ConnFeatures(w) ==
  [StartTLS |-> (w.starttls = "required"), Mechanisms |-> w.mechanisms]

\* What the server is modelled to send to a handshake: any of Tokens and
\* WireFeatures to the handshake of NewClient, and to the handshake that
\* reconnect runs beside the other tasks one element of each case.
ReconnectTokens ==
  {[err |-> "EOF", element |-> ZeroElement]}
    \cup {[err |-> "nil", element |-> e] :
            e \in { El("stream", NsStream, <<>>, TRUE),
                    El("proceed", NsTLS, <<>>, TRUE),
                    El("iq", NsJabberClient, <<Attr("", "type", "result")>>, TRUE),
                    El("iq", NsJabberClient, <<Attr("", "type", "error")>>, TRUE),
                    El("presence", NsJabberClient, <<>>, TRUE),
                    El("", "", <<>>, TRUE) }}
ReconnectFeatures ==
  { [starttls |-> "required", mechanisms |-> <<>>],
    [starttls |-> "absent", mechanisms |-> <<"PLAIN">>],
    NoFeatures }
HandshakeTokens == IF lpc = "off" THEN Tokens ELSE ReconnectTokens
HandshakeFeatures == IF lpc = "off" THEN WireFeatures ELSE ReconnectFeatures

\* ------------------------------------------------------ Client.authenticate
\* The switch key.
Key(e) == e.Name.Local \o e.Name.Space

\* The case of authenticate's switch an element falls in.
AuthCase(v, e) ==
  CASE Key(e) = "stream" \o NsStream -> "stream"
    [] Key(e) = "proceed" \o NsTLS -> "proceed"
    [] v = "sasl" /\ Key(e) = "success" \o NsSASL -> "success"
    [] v = "sasl" /\ Key(e) = "failure" \o NsSASL -> "failure"
    [] Key(e) = "iq" \o NsJabberClient -> "iq"
    [] OTHER -> "default"

RECURSIVE AuthEachPlain(_, _)
\* The loop over features.Mechanisms: one Auth per entry equal to "PLAIN".
AuthEachPlain(v, mechs) ==
  IF mechs = <<>> THEN <<>>
  ELSE (IF Head(mechs) = "PLAIN" THEN <<Auth(v, User, Pass, Resource)>> ELSE <<>>)
         \o AuthEachPlain(v, Tail(mechs))

\* A features case that looks at the mechanisms before StartTLS.
FeaturesReplyAuthFirst(v, f) ==
  IF AuthEachPlain(v, f.Mechanisms) # <<>> THEN AuthEachPlain(v, f.Mechanisms)
  ELSE IF f.StartTLS THEN <<xmlStartTLS>> ELSE <<>>

\* The stanzas the "stream" case writes for the decoded features.
FeaturesReply(v, f) ==
  IF f.StartTLS THEN <<xmlStartTLS>> ELSE AuthEachPlain(v, f.Mechanisms)

RECURSIVE WriteAll(_, _, _)
WriteAll(c, log, stanzas) ==
  IF stanzas = <<>> THEN log
  ELSE WriteAll(c, Write(c, log, Head(stanzas)), Tail(stanzas))

\* A success case that opens the session before binding.
SuccessReplySessionFirst == <<xmlStream(Id, Host), xmlStartSession, xmlIqBind(Resource)>>

\* The "success" case: Stream, Bind, Session.
SuccessReply == <<xmlStream(Id, Host), xmlIqBind(Resource), xmlStartSession>>

\* The loop over element.Attr of the "iq" case.
IqResult(e) ==
  \E i \in 1..Len(e.Attr) :
    e.Attr[i].Name.Local = "type" /\ e.Attr[i].Value = "result"

\* authenticate, line 1: c.connection.Stream(c.Id, Host)
AuthStart ==
  /\ apc = "start"
  /\ out' = Write(connection, out, xmlStream(Id, Host))
  /\ apc' = "loop"
  /\ last' = "start"
  /\ UNCHANGED <<variant, connection, err, element, features, lastRead, nread>>
  /\ UNCHANGED histVars

\* One turn of the loop: Next, then the switch.  r is what Next returns.
AuthRead(t) ==
  /\ apc = "loop"
  /\ nread < MaxReads
  /\ connection.outgoing.fd \in closed => t.err # "nil"
  /\ nread' = nread + 1
  /\ lastRead' = connection.incoming
  /\ element' = ConnNext(t).element
  /\ UNCHANGED <<variant, histVars>>

AuthReadError ==
  \E t \in HandshakeTokens :
    /\ AuthRead(t)
    /\ ConnNext(t).err # "nil"
    /\ apc' = "returned"
    /\ err' = ConnNext(t).err
    /\ last' = "readerr"
    /\ features' = NoFeatures
    /\ UNCHANGED <<connection, out>>

AuthStream ==
  \E t \in HandshakeTokens, w \in HandshakeFeatures :
    /\ AuthRead(t)
    /\ ConnNext(t).err = "nil"
    /\ AuthCase(variant, ConnNext(t).element) = "stream"
    /\ features' = w
    /\ out' = WriteAll(connection, out, FeaturesReply(variant, ConnFeatures(w)))
    /\ last' = "stream"
    /\ UNCHANGED <<connection, apc, err>>

AuthProceed ==
  \E t \in HandshakeTokens :
    /\ AuthRead(t)
    /\ ConnNext(t).err = "nil"
    /\ AuthCase(variant, ConnNext(t).element) = "proceed"
    /\ connection' = UseTLS(connection)
    /\ out' = Write(connection', out, xmlStream(Id, Host))
    /\ last' = "proceed"
    /\ features' = NoFeatures
    /\ UNCHANGED <<apc, err>>

AuthSuccess ==
  \E t \in HandshakeTokens :
    /\ AuthRead(t)
    /\ ConnNext(t).err = "nil"
    /\ AuthCase(variant, ConnNext(t).element) = "success"
    /\ out' = WriteAll(connection, out, SuccessReply)
    /\ last' = "success"
    /\ features' = NoFeatures
    /\ UNCHANGED <<connection, apc, err>>

\* What the "failure" case does: [ret, err, writes].  A case that asks again.
FailureCaseRetry(v) ==
  [returns |-> FALSE, err |-> "nil", writes |-> <<Auth(v, User, Pass, Resource)>>]

FailureCase(v) ==
  [returns |-> TRUE, err |-> "could not authenticate", writes |-> <<>>]

AuthFailure ==
  \E t \in HandshakeTokens :
    /\ AuthRead(t)
    /\ ConnNext(t).err = "nil"
    /\ AuthCase(variant, ConnNext(t).element) = "failure"
    /\ apc' = (IF FailureCase(variant).returns THEN "returned" ELSE "loop")
    /\ err' = FailureCase(variant).err
    /\ out' = WriteAll(connection, out, FailureCase(variant).writes)
    /\ last' = "failure"
    /\ features' = NoFeatures
    /\ UNCHANGED connection

AuthIq ==
  \E t \in HandshakeTokens :
    /\ AuthRead(t)
    /\ ConnNext(t).err = "nil"
    /\ AuthCase(variant, ConnNext(t).element) = "iq"
    /\ apc' = "returned"
    /\ err' = (IF IqResult(ConnNext(t).element) THEN "nil" ELSE "could not authenticate")
    /\ last' = "iq"
    /\ features' = NoFeatures
    /\ UNCHANGED <<connection, out>>

AuthDefault ==
  \E t \in HandshakeTokens :
    /\ AuthRead(t)
    /\ ConnNext(t).err = "nil"
    /\ AuthCase(variant, ConnNext(t).element) = "default"
    /\ last' = "default"
    /\ features' = NoFeatures
    /\ UNCHANGED <<connection, out, apc, err>>

\* ------------------------------------------------------------ Client state
\* The tasks that call LoadHistory.
Callers == 1..NCallers

\* hipchat.Message, reduced to the fields taken from the wire; Stamp and
\* Attachments are left out.
ZeroMsg == [From |-> "", Body |-> "", Mid |-> ""]
NoSlice == [array |-> 0, len |-> 0]

\* Nothing is closed, KeepAlive has not been called, the application has
\* received nothing.
NoSupervision ==
  /\ closed = {}
  /\ kpc = "off"
  /\ kconn = NoSocket
  /\ window = 0
  /\ inbox = <<>>
  /\ notified = 0

\* The fields NewClient sets, before listen is started and before any caller
\* holds the client.  make([]Message, 0) is array 1, of capacity 0.
NewClientFields ==
  /\ heap = << <<>> >>
  /\ messageBuffer = [array |-> 1, len |-> 0]
  /\ historyLock = 0
  /\ receivedMessage = <<>>
  /\ receivedRooms = <<>>
  /\ Closed = FALSE
  /\ pc = [p \in Callers |-> "idle"]
  /\ ret = [p \in Callers |-> NoSlice]
  /\ calls = [p \in Callers |-> 0]
  /\ win = [p \in Callers |-> <<>>]

\* The <message> bodies the server is modelled to send: body text, <fin>
\* absent, empty or with content, <x> with its jid and reason attributes, and
\* <result> with its inner XML.
Wire(body, fin, x, result) ==
  [body |-> body, fin |-> fin, x |-> x, result |-> result]
NoX == [present |-> FALSE, jid |-> "", reason |-> ""]
SomeX(jid, reason) == [present |-> TRUE, jid |-> jid, reason |-> reason]
Fwd1 == "<forwarded><message from='room/alice' id='1'><body>a</body></message></forwarded>"
Fwd2 == "<forwarded><message from='room/bob' id='2'><body>@attachment</body></message></forwarded>"
WireMessages ==
  { Wire("", "absent", NoX, ""),
    Wire("hi", "absent", NoX, ""),
    Wire("@attachment", "absent", NoX, ""),
    Wire("none", "absent", NoX, ""),
    Wire("", "set", NoX, ""),
    Wire("", "empty", NoX, ""),
    Wire("hi", "set", NoX, ""),
    Wire("", "absent", SomeX("room@conf", "join"), ""),
    Wire("", "absent", SomeX("", ""), ""),
    Wire("hi", "absent", SomeX("room@conf", "join"), ""),
    Wire("", "absent", NoX, Fwd1),
    Wire("", "absent", NoX, Fwd2) }
ZeroWire == Wire("", "absent", NoX, "")

\* Conn.Message: DecodeElement into IncomingMessage.  Fin and Result hold the
\* inner XML of their element; Invite is nil without an <x> child.
ConnMessage(w) ==
  [ From |-> "room/carol", MID |-> "9", Body |-> w.body,
    Fin |-> [Body |-> IF w.fin = "set" THEN "<set/>" ELSE ""],
    Invite |-> [nil |-> ~w.x.present, From |-> w.x.jid, Reason |-> w.x.reason],
    Result |-> [Body |-> w.result] ]
ZeroIncoming == ConnMessage(ZeroWire)

\* Conn.ForwardedMessage: xml.Unmarshal of the result's inner XML; text that
\* does not parse leaves the zero value.
ForwardedMessage(start) ==
  CASE start = Fwd1 -> [Message |-> [From |-> "room/alice", MID |-> "1", Body |-> "a"]]
    [] start = Fwd2 -> [Message |-> [From |-> "room/bob", MID |-> "2", Body |-> "@attachment"]]
    [] OTHER -> [Message |-> [From |-> "", MID |-> "", Body |-> ""]]

\* The Message listen builds from a decoded message: "@attachment" becomes
\* the empty body.
BuildMessage(im) ==
  [From |-> im.From, Body |-> (IF im.Body = "@attachment" THEN "" ELSE im.Body),
   Mid |-> im.MID]

\* ------------------------------------------------------------- Go slices
Cap(h, s) == Len(h[s.array])
\* The elements seen through a slice.
View(h, s) == IF s.array = 0 THEN <<>> ELSE SubSeq(h[s.array], 1, s.len)

\* append(s, v): in place while the backing array has room, else into a new
\* array of twice the capacity.  The result is [heap, slice].
GoAppend(h, s, v) ==
  IF s.len < Cap(h, s)
  THEN [heap |-> [h EXCEPT ![s.array][s.len + 1] = v],
        slice |-> [s EXCEPT !.len = @ + 1]]
  ELSE LET newcap == IF Cap(h, s) = 0 THEN 1 ELSE 2 * Cap(h, s)
           arr == [i \in 1..newcap |->
                     IF i <= s.len THEN h[s.array][i]
                     ELSE IF i = s.len + 1 THEN v ELSE ZeroMsg]
       IN [heap |-> Append(h, arr),
           slice |-> [array |-> Len(h) + 1, len |-> s.len + 1]]

\* NewClient up to the call of authenticate, the dial having succeeded.
InitAuth ==
  /\ variant \in Variants
  /\ connection = Dial
  /\ out = <<>>
  /\ apc = "start"
  /\ err = "none"
  /\ element = ZeroElement
  /\ features = NoFeatures
  /\ last = "none"
  /\ lastRead = Dial.incoming
  /\ nread = 0
  /\ lpc = "off"
  /\ m = ZeroIncoming
  /\ NewClientFields
  /\ npc = "auth"
  /\ nerr = "none"
  /\ NoSupervision

NextAuth ==
  \/ AuthStart
  \/ AuthReadError
  \/ AuthStream
  \/ AuthProceed
  \/ AuthSuccess
  \/ AuthFailure
  \/ AuthIq
  \/ AuthDefault

SpecAuth == InitAuth /\ [][NextAuth]_vars

\* ---------------------------------------------------------------- NewClient
\* What net.Dial returns.
DialErrors == {"dial tcp: connection refused", "dial tcp: i/o timeout"}

\* xmpp.Dial: the connection over the new socket, or the empty Conn and the
\* error of net.Dial.
xmppDial(e) ==
  IF e # "nil" THEN [c |-> NewConn, err |-> e] ELSE [c |-> Dial, err |-> "nil"]

\* A NewClient that starts the read loop whatever authenticate returned.
GoListenAlways(e) == TRUE

\* NewClient reaches "go c.listen()" only past both "if err != nil" returns.
GoListen(e) == e = "nil"

\* connection, err := xmpp.Dial(Host); the Client is built; a dial error is
\* returned, else authenticate is called.
NewClientDial ==
  \E e \in DialErrors \cup {"nil"} :
    /\ npc = "dial"
    /\ connection' = xmppDial(e).c
    /\ IF xmppDial(e).err # "nil"
         THEN npc' = "returned" /\ nerr' = xmppDial(e).err /\ apc' = apc
         ELSE npc' = "auth" /\ nerr' = nerr /\ apc' = "start"
    /\ UNCHANGED <<variant, out, err, element, features, last, lastRead, nread,
                   lpc, m, heap, messageBuffer, historyLock, receivedMessage,
                   receivedRooms, Closed, pc, ret, calls, win, liveVars>>

\* authenticate has returned: its error is returned, or listen is started
\* and nil returned.
NewClientReturn ==
  /\ npc = "auth"
  /\ apc = "returned"
  /\ npc' = "returned"
  /\ nerr' = err
  /\ lpc' = (IF GoListen(err) THEN "read" ELSE lpc)
  /\ UNCHANGED <<variant, connection, out, apc, err, element, features, last,
                 lastRead, nread, m, heap, messageBuffer, historyLock,
                 receivedMessage, receivedRooms, Closed, pc, ret, calls, win,
                 liveVars>>

\* NewClient is called.
InitNewClient ==
  /\ variant \in Variants
  /\ connection = NewConn
  /\ out = <<>>
  /\ apc = "off"
  /\ err = "none"
  /\ element = ZeroElement
  /\ features = NoFeatures
  /\ last = "none"
  /\ lastRead = NewConn.incoming
  /\ nread = 0
  /\ lpc = "off"
  /\ m = ZeroIncoming
  /\ NewClientFields
  /\ npc = "dial"
  /\ nerr = "none"
  /\ NoSupervision

NextNewClient ==
  \/ NewClientDial
  \/ NextAuth
  \/ NewClientReturn

SpecNewClient == InitNewClient /\ [][NextNewClient]_vars

\* ---------------------------------------------------------- Client.listen
ListenElements ==
  { El("iq", NsJabberClient, <<Attr("", "type", "result")>>, TRUE),
    El("message", NsJabberClient, <<>>, TRUE),
    El("presence", NsJabberClient, <<>>, TRUE),
    El("i", "qjabber:client", <<>>, TRUE),
    El("", "", <<>>, TRUE) }
ListenTokens ==
  {[err |-> "EOF", element |-> ZeroElement]}
    \cup {[err |-> "nil", element |-> e] : e \in ListenElements}

\* The case of listen's switch an element falls in.
ListenCase(e) ==
  CASE Key(e) = "iq" \o NsJabberClient -> "iq"
    [] Key(e) = "message" \o NsJabberClient -> "message"
    [] OTHER -> "default"

\* The branch of the if-chain of the "message" case.
MessageBranch(im) ==
  IF im.Body # "" /\ im.Body # "none" THEN "live"
  ELSE IF im.Fin.Body # "" THEN "fin"
  ELSE IF ~im.Invite.nil /\ im.Invite.From # "" THEN "invite"
  ELSE IF im.Result.Body # "" THEN "result"
  ELSE "none"

\* A lock that never refuses.
CanLockAlways(n) == TRUE

\* historyLock is make(chan bool, 1): a send goes through while it is empty.
CanLock(n) == n < 1

authVars == <<variant, apc, err, features, last, sessVars>>

\* One turn of the loop: Next, then the switch.
ListenRead(t) ==
  /\ lpc = "read"
  /\ nread < MaxListenReads
  /\ nread' = nread + 1
  /\ lastRead' = connection.incoming
  /\ element' = ConnNext(t).element
  /\ UNCHANGED <<authVars, connection, out, historyLock, receivedMessage,
                 receivedRooms, pc, ret, calls>>

\* err != nil: Closed is set and listen returns.
ListenReadError ==
  \E t \in ListenTokens :
    /\ ListenRead(t)
    /\ ConnNext(t).err # "nil"
    /\ Closed' = TRUE
    /\ lpc' = "returned"
    /\ UNCHANGED <<m, heap, messageBuffer, win>>

\* case "iq": continue
ListenIq ==
  \E t \in ListenTokens :
    /\ ListenRead(t)
    /\ ConnNext(t).err = "nil"
    /\ ListenCase(ConnNext(t).element) = "iq"
    /\ UNCHANGED <<lpc, m, heap, messageBuffer, Closed, win>>

\* default: the element is logged
ListenDefault ==
  \E t \in ListenTokens :
    /\ ListenRead(t)
    /\ ConnNext(t).err = "nil"
    /\ ListenCase(ConnNext(t).element) = "default"
    /\ UNCHANGED <<lpc, m, heap, messageBuffer, Closed, win>>

\* case "message", up to the branch taken; w is the element's content.
ListenMessage(t, w, branch) ==
  /\ ListenRead(t)
  /\ ConnNext(t).err = "nil"
  /\ ListenCase(ConnNext(t).element) = "message"
  /\ MessageBranch(ConnMessage(w)) = branch
  /\ m' = ConnMessage(w)
  /\ UNCHANGED Closed

\* A live message: the loop goes on to send on receivedMessage.
ListenLive ==
  \E t \in ListenTokens, w \in WireMessages :
    /\ ListenMessage(t, w, "live")
    /\ lpc' = "sendMessage"
    /\ UNCHANGED <<heap, messageBuffer, win>>

\* The end-of-archive marker: the loop goes on to send on recievedHistory.
ListenFin ==
  \E t \in ListenTokens, w \in WireMessages :
    /\ ListenMessage(t, w, "fin")
    /\ lpc' = "sendHistory"
    /\ UNCHANGED <<heap, messageBuffer, win>>

\* An invitation: the loop goes on to send on receivedRooms.
ListenInvite ==
  \E t \in ListenTokens, w \in WireMessages :
    /\ ListenMessage(t, w, "invite")
    /\ lpc' = "sendRooms"
    /\ UNCHANGED <<heap, messageBuffer, win>>

\* An archive result: the forwarded message is appended to messageBuffer.
ListenResult ==
  \E t \in ListenTokens, w \in WireMessages :
    /\ ListenMessage(t, w, "result")
    /\ messageBuffer.len < MaxBuf
    /\ LET msg == BuildMessage(ForwardedMessage(ConnMessage(w).Result.Body).Message)
           app == GoAppend(heap, messageBuffer, msg)
       IN /\ heap' = app.heap
          /\ messageBuffer' = app.slice
          /\ win' = [p \in Callers |->
                       IF pc[p] = "wait" THEN Append(win[p], msg) ELSE win[p]]
    /\ UNCHANGED lpc

\* A message that takes no branch.
ListenNone ==
  \E t \in ListenTokens, w \in WireMessages :
    /\ ListenMessage(t, w, "none")
    /\ UNCHANGED <<lpc, heap, messageBuffer, win>>

listenOnly == <<authVars, connection, out, element, lastRead, nread>>

\* A send that puts the message ahead of those waiting in the channel.
SendMessageAhead ==
  /\ lpc = "sendMessage"
  /\ Len(receivedMessage) < MessageChanCap
  /\ receivedMessage' = <<BuildMessage(m)>> \o receivedMessage
  /\ lpc' = "read"
  /\ UNCHANGED <<listenOnly, m, heap, messageBuffer, historyLock,
                 receivedRooms, Closed, pc, ret, calls, win>>

\* c.receivedMessage <- &Message{...}: blocks while the channel is full.
SendMessage ==
  /\ lpc = "sendMessage"
  /\ Len(receivedMessage) < MessageChanCap
  /\ receivedMessage' = Append(receivedMessage, BuildMessage(m))
  /\ lpc' = "read"
  /\ UNCHANGED <<listenOnly, m, heap, messageBuffer, historyLock,
                 receivedRooms, Closed, pc, ret, calls, win>>

\* c.receivedRooms <- items
SendRooms ==
  /\ lpc = "sendRooms"
  /\ Len(receivedRooms) < RoomsChanCap
  /\ receivedRooms' =
       Append(receivedRooms, <<[Id |-> m.Invite.From, Topic |-> m.Invite.Reason]>>)
  /\ lpc' = "read"
  /\ UNCHANGED <<listenOnly, m, heap, messageBuffer, historyLock,
                 receivedMessage, Closed, pc, ret, calls, win>>

\* c.recievedHistory <- c.messageBuffer meets the <-c.recievedHistory of the
\* caller p, whose LoadHistory returns the slice.
SendHistory(p) ==
  /\ lpc = "sendHistory"
  /\ pc[p] = "wait"
  /\ ret' = [ret EXCEPT ![p] = messageBuffer]
  /\ pc' = [pc EXCEPT ![p] = "idle"]
  /\ lpc' = "clearBuffer"
  /\ UNCHANGED <<listenOnly, m, heap, messageBuffer, historyLock,
                 receivedMessage, receivedRooms, Closed, calls, win>>

\* c.messageBuffer = c.messageBuffer[:0]
ClearBuffer ==
  /\ lpc = "clearBuffer"
  /\ messageBuffer' = [messageBuffer EXCEPT !.len = 0]
  /\ lpc' = "releaseLock"
  /\ UNCHANGED <<listenOnly, m, heap, historyLock, receivedMessage,
                 receivedRooms, Closed, pc, ret, calls, win>>

\* A listen that leaves the lock taken.
ReleaseLockSkipped ==
  /\ lpc = "releaseLock"
  /\ lpc' = "read"
  /\ UNCHANGED <<listenOnly, m, heap, messageBuffer, historyLock, receivedMessage,
                 receivedRooms, Closed, pc, ret, calls, win>>

\* <-c.historyLock
ReleaseLock ==
  /\ lpc = "releaseLock"
  /\ historyLock > 0
  /\ historyLock' = historyLock - 1
  /\ lpc' = "read"
  /\ UNCHANGED <<listenOnly, m, heap, messageBuffer, receivedMessage,
                 receivedRooms, Closed, pc, ret, calls, win>>

\* ------------------------------------------------------ Client.LoadHistory
xmlIqHistory(jid, limit) == [kind |-> "history", with |-> jid, max |-> limit]

\* A task calls LoadHistory.
Call(p) ==
  /\ pc[p] = "idle"
  /\ calls[p] < MaxCalls
  /\ calls' = [calls EXCEPT ![p] = @ + 1]
  /\ pc' = [pc EXCEPT ![p] = "lock"]
  /\ UNCHANGED <<listenOnly, lpc, m, heap, messageBuffer, historyLock,
                 receivedMessage, receivedRooms, Closed, ret, win>>

\* c.historyLock <- true
Acquire(p) ==
  /\ pc[p] = "lock"
  /\ CanLock(historyLock)
  /\ historyLock' = historyLock + 1
  /\ pc' = [pc EXCEPT ![p] = "query"]
  /\ UNCHANGED <<listenOnly, lpc, m, heap, messageBuffer, receivedMessage,
                 receivedRooms, Closed, ret, calls, win>>

\* c.connection.History(roomJid, start, limit)
WriteQuery(p) ==
  /\ pc[p] = "query"
  /\ out' = Write(connection, out, xmlIqHistory("room@conf", 10))
  /\ pc' = [pc EXCEPT ![p] = "wait"]
  /\ win' = [win EXCEPT ![p] = <<>>]
  /\ UNCHANGED <<authVars, connection, element, lastRead, nread, lpc, m, heap,
                 messageBuffer, historyLock, receivedMessage, receivedRooms,
                 Closed, ret, calls>>

\* ------------------------------------------------------- the application
\* A receive from Messages().
RecvMessage ==
  /\ receivedMessage # <<>>
  /\ receivedMessage' = Tail(receivedMessage)
  /\ UNCHANGED <<listenOnly, lpc, m, heap, messageBuffer, historyLock,
                 receivedRooms, Closed, pc, ret, calls, win>>

\* A receive from receivedRooms.
RecvRooms ==
  /\ receivedRooms # <<>>
  /\ receivedRooms' = Tail(receivedRooms)
  /\ UNCHANGED <<listenOnly, lpc, m, heap, messageBuffer, historyLock,
                 receivedMessage, Closed, pc, ret, calls, win>>

\* NewClient has returned nil: the handshake is over, listen runs.
InitListen ==
  /\ variant = "sasl"
  /\ connection = UseTLS(Dial)
  /\ out = <<>>
  /\ apc = "returned"
  /\ err = "nil"
  /\ element = ZeroElement
  /\ features = NoFeatures
  /\ last = "iq"
  /\ lastRead = UseTLS(Dial).incoming
  /\ nread = 0
  /\ lpc = "read"
  /\ m = ZeroIncoming
  /\ NewClientFields
  /\ npc = "returned"
  /\ nerr = "nil"
  /\ NoSupervision

NextListen ==
  \/ ListenReadError
  \/ ListenIq
  \/ ListenDefault
  \/ ListenLive
  \/ ListenFin
  \/ ListenInvite
  \/ ListenResult
  \/ ListenNone
  \/ SendMessage
  \/ SendRooms
  \/ \E p \in Callers : SendHistory(p)
  \/ ClearBuffer
  \/ ReleaseLock
  \/ \E p \in Callers : Call(p)
  \/ \E p \in Callers : Acquire(p)
  \/ \E p \in Callers : WriteQuery(p)
  \/ RecvMessage
  \/ RecvRooms

SpecListen == InitListen /\ [][NextListen]_vars

\* ------------------------------------------- src/hipchat.go: Client.listen
NsIqRoster == "jabber:iq:roster"
NsDisco == "http://jabber.org/protocol/disco#items"
NsMucRoom == "http://hipchat.com/protocol/muc#room"
Conf == "conf.hipchat.com"

xmlIqGet(from, to, ns) == [kind |-> "iq-get", from |-> from, to |-> to, xmlns |-> ns]
xmlPresence(jid, pres) == [kind |-> "presence", from |-> jid, show |-> pres]
xmlMUCUnavailable(jid, roomId) ==
  [kind |-> "unavailable", from |-> jid, to |-> roomId]

\* The top-level elements the server is modelled to send to the read loop.
LiveElements ==
  { El("iq", NsJabberClient, <<Attr("", "type", "result")>>, TRUE),
    El("message", NsJabberClient,
       <<Attr("", "type", "groupchat"), Attr("", "from", "room/carol"),
         Attr("", "mid", "9")>>, TRUE),
    El("message", NsJabberClient,
       <<Attr("", "type", "groupchat"), Attr("", "from", "room/dave"),
         Attr("", "mid", "10")>>, TRUE),
    El("message", NsJabberClient, <<Attr("", "from", "room@conf")>>, TRUE),
    El("presence", NsJabberClient, <<>>, TRUE),
    El("i", "qjabber:client", <<>>, TRUE),
    El("", "", <<>>, TRUE) }
LiveTokens ==
  {[err |-> "EOF", element |-> ZeroElement],
   [err |-> "use of closed network connection", element |-> ZeroElement]}
    \cup {[err |-> "nil", element |-> e] : e \in LiveElements}

RECURSIVE ToMapAt(_, _)
\* ToMap(attr)[key]: the value of the last attribute with that local name,
\* "" when there is none.
ToMapAt(attr, key) ==
  IF attr = <<>> THEN ""
  ELSE IF attr[Len(attr)].Name.Local = key THEN attr[Len(attr)].Value
  ELSE ToMapAt(SubSeq(attr, 1, Len(attr) - 1), key)

\* The <query> elements the server is modelled to send inside an iq, and
\* Conn.Query, which decodes the next start element into a query.
Item(jid, name, mention, topic, owner) ==
  [Jid |-> jid, Name |-> name, MentionName |-> mention, Topic |-> topic,
   Owner |-> owner]
WireQueries ==
  { [space |-> NsMucRoom, items |-> <<Item("1_ops@conf", "ops", "", "t", "o")>>],
    [space |-> NsMucRoom, items |-> <<>>],
    [space |-> NsDisco, items |-> <<Item("1_ops@conf", "ops", "", "t", "o")>>],
    [space |-> NsIqRoster, items |-> <<Item("1_7@chat", "Al", "al", "", "")>>],
    [space |-> "", items |-> <<>>] }
ConnQuery(q) ==
  [XMLName |-> [Space |-> q.space, Local |-> "query"], Items |-> q.items]

\* The switch on query.XMLName.Space.
QueryCase(query) ==
  CASE query.XMLName.Space = NsMucRoom -> "rooms"
    [] query.XMLName.Space = NsIqRoster -> "users"
    [] OTHER -> "none"

RoomsOf(items) ==
  [i \in 1..Len(items) |->
     [Id |-> items[i].Jid, Name |-> items[i].Name, Owner |-> items[i].Owner,
      Topic |-> items[i].Topic]]
UsersOf(items) ==
  [i \in 1..Len(items) |->
     [Id |-> items[i].Jid, Name |-> items[i].Name,
      MentionName |-> items[i].MentionName]]

\* The content of the <message> elements: the body, and the invitation with
\* the room description that comes with it.
LiveWire(body, from, name, topic) ==
  [body |-> body, inviteFrom |-> from, roomName |-> name, roomTopic |-> topic]
WireLiveMessages ==
  { LiveWire("hi", "", "", ""),
    LiveWire("", "", "", ""),
    LiveWire("", "alice@chat", "ops", "t"),
    LiveWire("", "alice@chat", "ops", ""),
    LiveWire("", "", "ops", "t") }

\* Conn.Invite: nil when the inviter or the room topic is empty.
ConnInvite(e, w) ==
  [ nil |-> (w.inviteFrom = "" \/ w.roomTopic = ""),
    RoomJid |-> ToMapAt(e.Attr, "from"),
    Invite |-> [From |-> w.inviteFrom],
    Room |-> [Name |-> w.roomName, Topic |-> w.roomTopic] ]

\* The one Room listen builds from an invitation.
InviteRooms(invite) ==
  << [Id |-> invite.RoomJid, Name |-> invite.Room.Name,
      Owner |-> invite.Invite.From, Topic |-> invite.Room.Topic] >>

\* The Message listen builds from a groupchat message (Stamp and To left
\* out).
LiveMessageOf(e, w) ==
  [From |-> ToMapAt(e.Attr, "from"), Body |-> w.body, Mid |-> ToMapAt(e.Attr, "mid")]

\* What listen of this snapshot never touches.
archiveVars == <<heap, messageBuffer, historyLock, receivedMessage,
                 receivedRooms, Closed, win>>

\* One turn of the loop: Next, then the switch.  A read from a closed
\* transport fails; what the decoder had read ahead counts as read before
\* the Close.
LiveRead(t) ==
  /\ lpc = "read"
  /\ nread < MaxLiveReads
  /\ (connection.outgoing.fd \in closed)
       <=> (t.err = "use of closed network connection")
  /\ t.err # "nil" => connection.outgoing.fd <= MaxReconnects
  /\ nread' = nread + 1
  /\ lastRead' = connection.incoming
  /\ element' = ConnNext(t).element
  /\ UNCHANGED <<authVars, connection, out, archiveVars, pc, ret, calls>>

\* err != nil: reconnect is called, whose first statement closes the
\* transport.
LiveReadError ==
  \E t \in LiveTokens :
    /\ LiveRead(t)
    /\ ConnNext(t).err # "nil"
    /\ lpc' = "close"
    /\ UNCHANGED m

\* listen's locals after the iq case has decoded a query: the namespace of
\* the query and the list built from its items.
QueryLists(query) ==
  [ origin |-> "query", space |-> query.XMLName.Space,
    items |-> CASE QueryCase(query) = "rooms" -> RoomsOf(query.Items)
                [] QueryCase(query) = "users" -> UsersOf(query.Items)
                [] OTHER -> <<>> ]

\* Where the iq case leaves the loop: at the send of the list it built, or
\* back at the read.
AfterQuery(query) ==
  CASE QueryCase(query) = "rooms" -> "sendRooms"
    [] QueryCase(query) = "users" -> "sendUsers"
    [] OTHER -> "read"

\* case "iq": the query is decoded and a room or user list is built.
LiveIq ==
  \E t \in LiveTokens, q \in WireQueries :
    /\ LiveRead(t)
    /\ ConnNext(t).err = "nil"
    /\ ListenCase(ConnNext(t).element) = "iq"
    /\ lpc' = AfterQuery(ConnQuery(q))
    /\ m' = QueryLists(ConnQuery(q))

\* case "message", type other than groupchat: an invitation or nothing.
LiveInvite ==
  \E t \in LiveTokens, w \in WireLiveMessages :
    /\ LiveRead(t)
    /\ ConnNext(t).err = "nil"
    /\ ListenCase(ConnNext(t).element) = "message"
    /\ ToMapAt(ConnNext(t).element.Attr, "type") # "groupchat"
    /\ LET invite == ConnInvite(ConnNext(t).element, w)
       IN IF invite.nil THEN UNCHANGED <<lpc, m>>
          ELSE /\ lpc' = "sendRooms"
               /\ m' = [origin |-> "invite", space |-> "",
                        items |-> InviteRooms(invite)]

\* case "message", type groupchat: the loop goes on to send on alive.
LiveMessage ==
  \E t \in LiveTokens, w \in WireLiveMessages :
    /\ LiveRead(t)
    /\ ConnNext(t).err = "nil"
    /\ ListenCase(ConnNext(t).element) = "message"
    /\ ToMapAt(ConnNext(t).element.Attr, "type") = "groupchat"
    /\ lpc' = "sendAlive"
    /\ m' = LiveMessageOf(ConnNext(t).element, w)

\* default: the element is logged
LiveDefault ==
  \E t \in LiveTokens :
    /\ LiveRead(t)
    /\ ConnNext(t).err = "nil"
    /\ ListenCase(ConnNext(t).element) = "default"
    /\ UNCHANGED <<lpc, m>>

\* The panic of reconnect ends the process and every task in it.
Running == lpc # "panicked"

\* What a step of the tasks of this snapshot other than a read leaves alone.
liveOnly == <<variant, err, features, last, npc, nerr, element, lastRead,
              nread, archiveVars>>

\* c.receivedRooms <- items meets the <-c.receivedRooms of a Rooms() call.
LiveSendRooms(p) ==
  /\ lpc = "sendRooms"
  /\ pc[p] = "waitRooms"
  /\ ret' = [ret EXCEPT ![p] = m.items]
  /\ pc' = [pc EXCEPT ![p] = "idle"]
  /\ lpc' = "read"
  /\ UNCHANGED <<liveOnly, apc, connection, out, m, calls, liveVars>>

\* c.receivedUsers <- items meets the <-c.receivedUsers of a Users() call.
LiveSendUsers(p) ==
  /\ lpc = "sendUsers"
  /\ pc[p] = "waitUsers"
  /\ ret' = [ret EXCEPT ![p] = m.items]
  /\ pc' = [pc EXCEPT ![p] = "idle"]
  /\ lpc' = "read"
  /\ UNCHANGED <<liveOnly, apc, connection, out, m, calls, liveVars>>

\* c.alive <- true meets the <-c.alive of AliveChecker's select.
LiveSendAlive ==
  /\ lpc = "sendAlive"
  /\ kpc = "select"
  /\ kpc' = "leave"
  /\ lpc' = "sendMessage"
  /\ UNCHANGED <<liveOnly, apc, connection, out, m, pc, ret, calls, closed,
                 kconn, window, inbox, notified>>

\* c.receivedMessage <- &Message{...} meets a receive from Messages().
LiveSendMessage ==
  /\ lpc = "sendMessage"
  /\ inbox' = Append(inbox, m)
  /\ lpc' = "read"
  /\ UNCHANGED <<liveOnly, apc, connection, out, m, pc, ret, calls, closed,
                 kpc, kconn, window, notified>>

\* The two application tasks that call Rooms() and Users().
Askers == {1, 2}

\* The queries the application has written so far.
IsQuery(w) == w.stanza.kind = "iq-get"
Asked == Len(SelectSeq(out, IsQuery))

\* Rooms(): requestRooms, then the receive.
CallRooms(p) ==
  /\ Running
  /\ pc[p] = "idle"
  /\ Asked < MaxQueries
  /\ calls' = [calls EXCEPT ![p] = @ + 1]
  /\ out' = Write(connection, out, xmlIqGet(Id, Conf, NsDisco))
  /\ pc' = [pc EXCEPT ![p] = "waitRooms"]
  /\ UNCHANGED <<liveOnly, apc, connection, lpc, m, ret, liveVars>>

\* Users(): requestUsers, then the receive.
CallUsers(p) ==
  /\ Running
  /\ pc[p] = "idle"
  /\ Asked < MaxQueries
  /\ calls' = [calls EXCEPT ![p] = @ + 1]
  /\ out' = Write(connection, out, xmlIqGet(Id, Host, NsIqRoster))
  /\ pc' = [pc EXCEPT ![p] = "waitUsers"]
  /\ UNCHANGED <<liveOnly, apc, connection, lpc, m, ret, liveVars>>

\* ---------------------------------------- src/hipchat.go: Client.reconnect
\* xmpp.Dial once more: a socket that is none of the earlier ones.
Redial(c) ==
  LET outgoing == [fd |-> c.outgoing.fd + 1, layers |-> 0]
  IN [outgoing |-> outgoing, incoming |-> [over |-> outgoing]]

\* The statements of reconnect after the log line, in program order; listen
\* goes back to its loop after the last.
ReconnectSteps == <<"close", "sleep", "dial", "authenticate", "status", "notify", "read">>

\* A reconnect that sends the presence before the handshake.
AfterStepStatusFirst(step) ==
  CASE step = "dial" -> "status"
    [] step = "status" -> "authenticate"
    [] step = "authenticate" -> "notify"
    [] OTHER -> ReconnectSteps[1 + CHOOSE i \in 1..6 : ReconnectSteps[i] = step]

\* The statement that follows a finished statement of reconnect.
AfterStep(step) ==
  ReconnectSteps[1 + CHOOSE i \in 1..6 : ReconnectSteps[i] = step]

\* A Close that panics on a transport closed before.
ReconnectClosePanics ==
  /\ lpc = "close"
  /\ closed' = closed \cup {connection.outgoing.fd}
  /\ lpc' = (IF connection.outgoing.fd \in closed THEN "panicked" ELSE AfterStep("close"))
  /\ UNCHANGED <<liveOnly, apc, connection, out, m, pc, ret, calls, kpc,
                 kconn, window, inbox, notified>>

\* err := c.connection.Close(); the error of a second Close is logged.
ReconnectClose ==
  /\ lpc = "close"
  /\ closed' = closed \cup {connection.outgoing.fd}
  /\ lpc' = AfterStep("close")
  /\ UNCHANGED <<liveOnly, apc, connection, out, m, pc, ret, calls, kpc,
                 kconn, window, inbox, notified>>

\* time.Sleep(1 * time.Minute)
ReconnectSleep ==
  /\ lpc = "sleep"
  /\ lpc' = AfterStep("sleep")
  /\ UNCHANGED <<liveOnly, apc, connection, out, m, pc, ret, calls, liveVars>>

\* connection, err := xmpp.Dial(Host): a dial error panics, else the new
\* connection is stored and authenticate is called.
ReconnectDial ==
  \E e \in DialErrors \cup {"nil"} :
    /\ lpc = "dial"
    /\ IF xmppDial(e).err # "nil"
         THEN /\ lpc' = "panicked"
              /\ UNCHANGED <<connection, apc>>
         ELSE /\ connection' = Redial(connection)
              /\ lpc' = AfterStep("dial")
              /\ apc' = (IF lpc' = "authenticate" THEN "start" ELSE apc)
    /\ UNCHANGED <<liveOnly, out, m, pc, ret, calls, liveVars>>

\* c.authenticate() has returned; its error is dropped.
ReconnectAuthenticated ==
  /\ lpc = "authenticate"
  /\ apc = "returned"
  /\ lpc' = AfterStep("authenticate")
  /\ UNCHANGED <<liveOnly, apc, connection, out, m, pc, ret, calls, liveVars>>

\* c.Status("available")
ReconnectStatus ==
  /\ lpc = "status"
  /\ out' = Write(connection, out, xmlPresence(Id, "available"))
  /\ lpc' = AfterStep("status")
  /\ apc' = (IF lpc' = "authenticate" THEN "start" ELSE apc)
  /\ UNCHANGED <<liveOnly, connection, m, pc, ret, calls, liveVars>>

\* c.OnReconnect <- true meets a receive of the application.
ReconnectNotify ==
  /\ lpc = "notify"
  /\ notified' = notified + 1
  /\ lpc' = AfterStep("notify")
  /\ UNCHANGED <<liveOnly, apc, connection, out, m, pc, ret, calls, closed,
                 kpc, kconn, window, inbox>>

\* ------------------------------------- src/hipchat.go: Client.AliveChecker
\* KeepAlive starts AliveChecker, which enters its select.
KeepAlive ==
  /\ Running
  /\ kpc = "off"
  /\ kpc' = "select"
  /\ window' = 0
  /\ UNCHANGED <<liveOnly, apc, connection, out, lpc, m, pc, ret, calls,
                 closed, kconn, inbox, notified>>

\* Time passes while AliveChecker waits in its select.
Tick ==
  /\ Running
  /\ kpc = "select"
  /\ window < AliveWindow
  /\ window' = window + 1
  /\ UNCHANGED <<liveOnly, apc, connection, out, lpc, m, pc, ret, calls,
                 closed, kpc, kconn, inbox, notified>>

\* case <-time.After(5 * time.Minute): c.connection is loaded.
AliveTimeout ==
  /\ Running
  /\ kpc = "select"
  /\ window = AliveWindow
  /\ kconn' = connection.outgoing
  /\ kpc' = "close"
  /\ UNCHANGED <<liveOnly, apc, connection, out, lpc, m, pc, ret, calls,
                 closed, window, inbox, notified>>

\* Close() on the loaded connection; the loop enters the select anew.
AliveClose ==
  /\ Running
  /\ kpc = "close"
  /\ closed' = closed \cup {kconn.fd}
  /\ kpc' = "select"
  /\ window' = 0
  /\ UNCHANGED <<liveOnly, apc, connection, out, lpc, m, pc, ret, calls,
                 kconn, inbox, notified>>

\* A select that keeps the timer of the iteration before.
AliveLeaveSameTimer ==
  /\ Running
  /\ kpc = "leave"
  /\ out' = Write(connection, out, xmlMUCUnavailable(Id, "1_default@" \o Conf \o "/bot"))
  /\ kpc' = "select"
  /\ UNCHANGED <<liveOnly, apc, connection, lpc, m, pc, ret, calls, closed,
                 kconn, window, inbox, notified>>

\* case <-c.alive: c.Leave(...); the loop enters the select anew, and the
\* select makes a new timer with time.After.
AliveLeave ==
  /\ Running
  /\ kpc = "leave"
  /\ out' = Write(connection, out, xmlMUCUnavailable(Id, "1_default@" \o Conf \o "/bot"))
  /\ kpc' = "select"
  /\ window' = 0
  /\ UNCHANGED <<liveOnly, apc, connection, lpc, m, pc, ret, calls, closed,
                 kconn, inbox, notified>>

\* NewClient of src/hipchat.go has returned nil: the handshake is over, the
\* server having required TLS, and listen runs.
InitLive ==
  /\ variant = "iq"
  /\ connection = UseTLS(Dial)
  /\ out = <<>>
  /\ apc = "returned"
  /\ err = "nil"
  /\ element = ZeroElement
  /\ features = NoFeatures
  /\ last = "iq"
  /\ lastRead = connection.incoming
  /\ nread = 0
  /\ lpc = "read"
  /\ m = [origin |-> "none", space |-> "", items |-> <<>>]
  /\ NewClientFields
  /\ npc = "returned"
  /\ nerr = "nil"
  /\ NoSupervision

\* The read loop with its reconnect, beside an application that has called
\* KeepAlive and receives from Messages() and OnReconnect.
NextLive ==
  \/ LiveReadError
  \/ LiveIq
  \/ LiveInvite
  \/ LiveMessage
  \/ LiveDefault
  \/ LiveSendAlive
  \/ LiveSendMessage
  \/ ReconnectClose
  \/ ReconnectSleep
  \/ ReconnectDial
  \/ AuthStart
  \/ AuthReadError
  \/ AuthStream
  \/ AuthProceed
  \/ AuthIq
  \/ AuthDefault
  \/ ReconnectAuthenticated
  \/ ReconnectStatus
  \/ ReconnectNotify
  \/ KeepAlive
  \/ Tick
  \/ AliveTimeout
  \/ AliveClose
  \/ AliveLeave

SpecLive == InitLive /\ [][NextLive]_vars

\* The read loop with its reconnect, beside an application that calls
\* Rooms() and Users() and receives from OnReconnect, and has not called
\* KeepAlive.
NextRooms ==
  \/ LiveReadError
  \/ LiveIq
  \/ LiveInvite
  \/ LiveMessage
  \/ LiveDefault
  \/ \E p \in Askers : LiveSendRooms(p)
  \/ \E p \in Askers : LiveSendUsers(p)
  \/ \E p \in Askers : CallRooms(p)
  \/ \E p \in Askers : CallUsers(p)
  \/ ReconnectClose
  \/ ReconnectSleep
  \/ ReconnectDial
  \/ AuthStart
  \/ AuthReadError
  \/ AuthStream
  \/ AuthProceed
  \/ AuthIq
  \/ AuthDefault
  \/ ReconnectAuthenticated
  \/ ReconnectStatus
  \/ ReconnectNotify

SpecRooms == InitLive /\ [][NextRooms]_vars

\* Either read loop: listen of src/unnamed/part_001 with LoadHistory, or
\* listen of src/hipchat.go with reconnect and AliveChecker.
InitLoops == InitListen \/ InitLive

NextLoops ==
  \/ variant = "sasl" /\ NextListen
  \/ variant = "iq" /\ NextLive

SpecLoops == InitLoops /\ [][NextLoops]_vars

\* ------------------------------------------------- handshake properties
\* The stanzas a step hands to the transport.
Wrote == SubSeq(out', Len(out) + 1, Len(out'))
\* A step that calls Conn.Next.
AuthReads == nread' = nread + 1

NameOf(local, space) == [Local |-> local, Space |-> space]
\* The value of the element's type attribute, "" when it has none.
TypeAttr(e) ==
  IF \E i \in 1..Len(e.Attr) : e.Attr[i].Name = [Space |-> "", Local |-> "type"]
  THEN LET i == CHOOSE i \in 1..Len(e.Attr) :
                  e.Attr[i].Name = [Space |-> "", Local |-> "type"]
       IN e.Attr[i].Value
  ELSE ""
OffersPlain(w) == \E i \in 1..Len(w.mechanisms) : w.mechanisms[i] = "PLAIN"
Via(c, stanzas) == [i \in 1..Len(stanzas) |-> [stanza |-> stanzas[i], via |-> c.outgoing]]

\* C4: when the features decoded in the "stream" case advertise required
\* STARTTLS, the step writes the start-TLS request and nothing else, whatever
\* mechanisms the same element offers.
C4_StartTLSOnly ==
  [][(AuthReads /\ last' = "stream" /\ features'.starttls = "required")
       => Wrote = Via(connection, <<xmlStartTLS>>)]_vars

C4_Witness ==
  /\ last = "stream"
  /\ features.starttls = "required"
  /\ OffersPlain(features)
  /\ out[Len(out)].stanza = xmlStartTLS

\* C5: on TLS proceed the transport is wrapped and the decoder rebuilt over
\* the wrapped transport before the stream-open is written; the stream-open
\* goes to the wrapped transport, and every Next reads from a decoder built
\* over the connection's current transport.
C5_UpgradeThenStream ==
  [][/\ (AuthReads /\ last' = "proceed")
          => /\ connection'.outgoing.layers = connection.outgoing.layers + 1
             /\ connection'.incoming.over = connection'.outgoing
             /\ Wrote = Via(connection', <<xmlStream(Id, Host)>>)
     /\ AuthReads => lastRead'.over = connection.outgoing]_vars

C5_Witness ==
  /\ connection.outgoing.layers = 1
  /\ last = "stream"
  /\ lastRead.over.layers = 1
  /\ \E i \in 1..Len(out) :
       out[i].stanza.kind = "stream" /\ out[i].via.layers = 1

\* C6: for features without required STARTTLS the step writes one auth
\* request when PLAIN is among the mechanisms and nothing otherwise.
C6_OneAuthIffPlain ==
  [][(AuthReads /\ last' = "stream" /\ features'.starttls # "required")
       => Wrote = (IF OffersPlain(features')
                     THEN Via(connection, <<Auth(variant, User, Pass, Resource)>>)
                     ELSE <<>>)]_vars

\* C7: on a SASL success element the step writes stream-open, bind and
\* session start, in that order and nothing else (SASL snapshot).
C7_StreamBindSession ==
  [][(AuthReads /\ variant = "sasl" /\ last' # "readerr"
        /\ element'.Name = NameOf("success", NsSASL))
       => /\ Wrote = Via(connection,
                         <<xmlStream(Id, Host), xmlIqBind(Resource), xmlStartSession>>)
          /\ connection' = connection]_vars

C7_Witness ==
  /\ last = "success"
  /\ Len(out) >= 4
  /\ out[Len(out)].stanza = xmlStartSession

\* C8: on a SASL failure element authenticate returns the authentication
\* error and writes nothing; once it has returned it neither reads nor writes
\* (SASL snapshot).
C8_FailureIsFatal ==
  [][/\ (AuthReads /\ variant = "sasl" /\ last' # "readerr"
           /\ element'.Name = NameOf("failure", NsSASL))
          => /\ apc' = "returned"
             /\ err' = "could not authenticate"
             /\ out' = out
     /\ apc = "returned" => (out' = out /\ nread' = nread /\ apc' = apc)]_vars

C8_Witness ==
  /\ variant = "sasl"
  /\ element.Name = NameOf("failure", NsSASL)
  /\ apc = "returned"
  /\ err = "could not authenticate"

\* C9: authenticate returns nil exactly when the element read is a top-level
\* iq whose type attribute is result, and an iq of any other type makes it
\* return the authentication error.
C9_ReadyIffIqResult ==
  [][AuthReads =>
       /\ (apc' = "returned" /\ err' = "nil")
            <=> /\ element'.Name = NameOf("iq", NsJabberClient)
                /\ element'.top
                /\ TypeAttr(element') = "result"
       /\ (element'.Name = NameOf("iq", NsJabberClient)
             /\ TypeAttr(element') # "result")
            => (apc' = "returned" /\ err' = "could not authenticate")]_vars

\* C10: a top-level element that is none of stream features, TLS proceed,
\* SASL success, SASL failure or iq causes no write and leaves the handshake
\* reading.
HandshakeNames ==
  { NameOf("stream", NsStream), NameOf("features", NsStream),
    NameOf("proceed", NsTLS), NameOf("success", NsSASL),
    NameOf("failure", NsSASL), NameOf("iq", NsJabberClient) }

C10_OtherIgnored ==
  [][(AuthReads /\ last' # "readerr" /\ element'.top
        /\ element'.Name \notin HandshakeNames)
       => (out' = out /\ apc' = "loop")]_vars

\* ---------------------------------------------- archive fetch properties
\* Caller p writes its archive query in this step.
WritesQuery(p) == pc[p] = "query" /\ pc'[p] = "wait"
\* Caller p's LoadHistory returns in this step.
Returns(p) == pc[p] = "wait" /\ pc'[p] = "idle"

\* C1: a caller writes its archive query only when no other call holds the
\* lock or awaits its result and the read loop is not still finishing the
\* end-of-archive marker it delivered to another call.
C1_QueriesSerialized ==
  [][\A q \in Callers :
       WritesQuery(q) =>
         /\ \A p \in Callers \ {q} : pc[p] \notin {"query", "wait"}
         /\ lpc \notin {"clearBuffer", "releaseLock"}]_vars

C1_Witness ==
  \E p, q \in Callers :
    /\ p # q
    /\ pc[p] = "lock"
    /\ pc[q] = "wait"
    /\ \E r \in Callers : ret[r] # NoSlice

\* C2: the slice a LoadHistory call returns holds exactly the archive
\* results read since the call wrote its query, in arrival order.
C2_ExactWindow ==
  [][\A p \in Callers : Returns(p) => View(heap', ret'[p]) = win[p]]_vars

\* C3: messageBuffer is empty when a call writes its query and empty right
\* after a call returns.
C3_BufferEmptyAtEnds ==
  [][\A p \in Callers :
       /\ WritesQuery(p) => messageBuffer.len = 0
       /\ Returns(p) => messageBuffer'.len = 0]_vars

\* ------------------------------------------------- read failure properties
\* The errors Conn.Next returns.
ReadErrors == {"EOF", "invalid xml response"}

\* C11: a read that ends in a decoder error or meets an element without a
\* local name makes authenticate return a read error in that very step,
\* writing nothing; after that return it reads nothing, writes nothing and
\* its result stands.
C11_ReadFailureReturns ==
  [][/\ (AuthReads /\ element'.Name.Local = "")
          => /\ apc' = "returned"
             /\ err' \in ReadErrors
             /\ out' = out
             /\ connection' = connection
     /\ (apc = "returned" /\ err \in ReadErrors)
          => (out' = out /\ nread' = nread /\ apc' = apc /\ err' = err)]_vars

C11_Witness ==
  /\ apc = "returned"
  /\ err = "invalid xml response"
  /\ last = "readerr"
  /\ connection.outgoing.layers = 1
  /\ nread >= 3

\* C12: a failed dial makes NewClient return the dial error without calling
\* authenticate; a failed authenticate makes it return authenticate's error;
\* listen runs only under a NewClient that returned nil, and after an error
\* return nothing is read, written or started.
C12_FailedConnectNoListen ==
  [][/\ (npc = "dial" /\ npc' # "dial" /\ connection'.outgoing = NoSocket)
          => /\ npc' = "returned"
             /\ nerr' \in DialErrors
             /\ apc' = "off"
             /\ lpc' = "off"
     /\ (npc = "auth" /\ npc' = "returned")
          => /\ nerr' = err
             /\ err # "nil" => lpc' = "off"
     /\ lpc' # "off" => (npc' = "returned" /\ nerr' = "nil")
     /\ (npc = "returned" /\ nerr # "nil")
          => UNCHANGED <<npc, nerr, apc, lpc, out, nread>>]_vars

C12_Witness ==
  /\ npc = "returned"
  /\ nerr = "could not authenticate"
  /\ lpc = "off"
  /\ nread >= 2

\* ------------------------------------------------- read loop properties
\* A step in which listen calls Conn.Next.
LoopReads == lpc = "read" /\ nread' = nread + 1
\* The read was a failure.
ReadFailed == lpc' \in {"returned", "close"}
\* The names listen's switch is written for.
LoopNames == {NameOf("iq", NsJabberClient), NameOf("message", NsJabberClient)}

\* C13: after reading a top-level element that is neither iq nor message the
\* loop is back at its read, and nothing was sent on a channel, handed to a
\* caller or written, and the archive buffer and lock are as before.
C13_UnrecognizedIgnored ==
  [][(LoopReads /\ ~ReadFailed /\ element'.top /\ element'.Name \notin LoopNames)
       => /\ lpc' = "read"
          /\ UNCHANGED <<receivedMessage, receivedRooms, inbox, pc, ret, out,
                         heap, messageBuffer, historyLock, Closed, closed>>]_vars

\* Conn.Next returned an error: it hands back no named element.
NextFailed == element'.Name.Local = ""
\* A step in which some task calls Conn.Next.
Reads == nread' = nread + 1

\* C14: a failed read of the loop puts control at the first statement of the
\* reconnection; while the old transport is being closed, waited out and
\* redialled nothing is read; and the dial leaves the client with a
\* transport that is neither the failed one nor one closed before.
C14_FailedReadReconnects ==
  [][/\ (LoopReads /\ NextFailed) => lpc' = "close"
     /\ lpc \in {"close", "sleep", "dial", "returned", "panicked"} => ~Reads
     /\ (lpc = "dial" /\ lpc' \notin {"dial", "panicked"})
          => connection'.outgoing.fd \notin closed' \cup {connection.outgoing.fd}]_vars

\* ------------------------------------------------- live message properties
\* The decoded message has a body and none of the other payloads.
PlainBody(im) ==
  /\ im.Body # ""
  /\ im.Invite.nil
  /\ im.Result.Body = ""
  /\ im.Fin.Body = ""

\* C15: a message read with a non-empty body and no other payload takes the
\* loop to its send on receivedMessage; that send appends one Message with
\* the body as received, and while the channel is full the loop waits and
\* nothing is appended.
C15_BodyDeliveredOnce ==
  [][/\ (LoopReads /\ ~ReadFailed /\ element'.Name = NameOf("message", NsJabberClient)
           /\ PlainBody(m'))
          => lpc' = "sendMessage"
     /\ (lpc = "sendMessage" /\ PlainBody(m))
          => \/ /\ lpc' = "read"
                /\ Len(receivedMessage) < MessageChanCap
                /\ Len(receivedMessage') = Len(receivedMessage) + 1
                /\ receivedMessage'[Len(receivedMessage')].Body = m.Body
             \/ /\ lpc' = "sendMessage"
                /\ Len(receivedMessage') <= Len(receivedMessage)]_vars

\* ------------------------------------------------------ order of delivery
\* Where the loop stands with an event it has read and not yet handed over.
SendStates == {"sendAlive", "sendMessage", "sendRooms", "sendUsers", "sendHistory"}

\* C16: the loop holds at most one event at a time - the one built from the
\* element it read last, replaced only by the next read, and nothing is read
\* while it awaits its send; each channel takes that event at its tail and
\* gives from its head; archive results join the buffer at its end.  So
\* every channel hands over its events in the order their elements were
\* read.
C16_WireOrder ==
  [][/\ m' # m => LoopReads
     /\ lpc \in SendStates => ~Reads
     /\ receivedMessage' # receivedMessage
          => \/ /\ lpc = "sendMessage" /\ lpc' = "read"
                /\ receivedMessage' = Append(receivedMessage, BuildMessage(m))
             \/ receivedMessage' = Tail(receivedMessage)
     /\ receivedRooms' # receivedRooms
          => \/ /\ lpc = "sendRooms" /\ lpc' = "read"
                /\ receivedRooms' =
                     Append(receivedRooms,
                            <<[Id |-> m.Invite.From, Topic |-> m.Invite.Reason]>>)
             \/ receivedRooms' = Tail(receivedRooms)
     /\ inbox' # inbox
          => /\ lpc = "sendMessage" /\ lpc' = "read"
             /\ inbox' = Append(inbox, m)
     /\ \A p \in Callers :
          ret'[p] # ret[p]
            => \/ lpc = "sendHistory" /\ ret'[p] = messageBuffer
               \/ lpc \in {"sendRooms", "sendUsers"} /\ ret'[p] = m.items
     /\ messageBuffer'.len > messageBuffer.len
          => /\ LoopReads
             /\ View(heap', messageBuffer')
                  = Append(View(heap, messageBuffer),
                           BuildMessage(ForwardedMessage(m'.Result.Body).Message))]_vars

C16_Witness ==
  /\ Len(receivedMessage) = 2
  /\ receivedMessage[1].Body = "hi"
  /\ receivedMessage[2].Body = ""
  /\ lpc = "sendMessage"

\* ------------------------------------------------ room and user lists
\* Caller p's Rooms() or Users() returns in this step.
ListReturns(p) == pc[p] \in {"waitRooms", "waitUsers"} /\ pc'[p] = "idle"
IqRead == LoopReads /\ ~NextFailed /\ element'.Name = NameOf("iq", NsJabberClient)

\* C17: an iq read with a room query takes the loop to one send on
\* receivedRooms, with a roster query to one send on receivedUsers; that send
\* hands the list to exactly one waiting call; and a Rooms() or Users() call
\* returns only with a list built from a query reply the loop has read.
C17_ReplyPerQuery ==
  [][/\ (IqRead /\ m'.space = NsMucRoom) => lpc' = "sendRooms"
     /\ (IqRead /\ m'.space = NsIqRoster) => lpc' = "sendUsers"
     /\ (lpc \in {"sendRooms", "sendUsers"} /\ lpc' # lpc)
          => /\ lpc' = "read"
             /\ Cardinality({p \in Callers : ListReturns(p)}) = 1
     /\ \A p \in Callers :
          ListReturns(p)
            => /\ m.origin = "query"
               /\ ret'[p] = m.items
               /\ lpc = (IF pc[p] = "waitRooms" THEN "sendRooms" ELSE "sendUsers")]_vars

\* ------------------------------------------------------ invitation properties
\* The decoded message carries an invitation: an <x> child that names a room.
HasInvitation(im) == ~im.Invite.nil /\ im.Invite.From # ""

\* C18: a message read with an invitation payload takes the loop to its send
\* on receivedRooms; that send appends one list holding the one Room built
\* from the invitation, and while the channel is full the loop waits and
\* nothing is appended.
C18_InvitationDeliveredOnce ==
  [][/\ (LoopReads /\ ~ReadFailed /\ element'.Name = NameOf("message", NsJabberClient)
           /\ HasInvitation(m'))
          => lpc' = "sendRooms"
     /\ lpc = "sendRooms"
          => \/ /\ lpc' = "read"
                /\ Len(receivedRooms) < RoomsChanCap
                /\ receivedRooms' =
                     Append(receivedRooms,
                            <<[Id |-> m.Invite.From, Topic |-> m.Invite.Reason]>>)
             \/ /\ lpc' = "sendRooms"
                /\ Len(receivedRooms') <= Len(receivedRooms)]_vars

\* -------------------------------------------------------- liveness window
\* The transport listen reads from has been closed.
TransportClosed == connection.outgoing.fd \in closed

Leaves(step) == lpc = step /\ lpc' # step

\* C20: reconnect goes through its statements in one order.  Close closes
\* the transport the client holds; the sleep follows; the dial follows and
\* either panics or stores a transport that was never closed and calls
\* authenticate at its first statement, which writes the stream header to
\* the new transport; the presence is written to the new transport once
\* authenticate has returned; the send on OnReconnect comes last, and listen
\* reads again only after it.  Only the handshake reads in between.
C20_ReconnectOrder ==
  [][/\ Leaves("close")
          => /\ lpc' = "sleep"
             /\ closed' = closed \cup {connection.outgoing.fd}
             /\ connection' = connection
     /\ Leaves("sleep")
          => /\ lpc' = "dial"
             /\ TransportClosed
             /\ connection' = connection
     /\ Leaves("dial")
          => \/ lpc' = "panicked" /\ connection' = connection
             \/ /\ lpc' = "authenticate"
                /\ apc' = "start"
                /\ connection'.outgoing.fd \notin closed \cup {connection.outgoing.fd}
                /\ Wrote = <<>>
     /\ (lpc = "authenticate" /\ apc = "start" /\ apc' # "start")
          => Wrote = Via(connection, <<xmlStream(Id, Host)>>)
     /\ lpc = "authenticate"
          => \A i \in 1..Len(Wrote) : Wrote[i].via.fd = connection.outgoing.fd
     /\ Leaves("authenticate")
          => lpc' = "status" /\ apc = "returned" /\ Wrote = <<>>
     /\ Leaves("status")
          => /\ lpc' = "notify"
             /\ Wrote = Via(connection, <<xmlPresence(Id, "available")>>)
             /\ notified' = notified
     /\ Leaves("notify")
          => lpc' = "read" /\ notified' = notified + 1 /\ Wrote = <<>>
     /\ notified' # notified => lpc = "notify"
     /\ connection'.outgoing.fd # connection.outgoing.fd => lpc = "dial"
     /\ lpc \in {"close", "sleep", "dial", "status", "notify"} => ~Reads
     /\ lpc = "authenticate" => lpc' \in {"authenticate", "status"}]_vars

\* A reconnect has run to its end: the handshake has returned on the second
\* transport, the presence was written to it and the application was told.
C20_Witness ==
  /\ lpc = "read"
  /\ notified = 1
  /\ apc = "returned"
  /\ connection.outgoing.fd = 2
  /\ err = "nil"
  /\ 1 \in closed
  /\ \E i, j \in 1..Len(out) :
       /\ i < j
       /\ out[i].stanza = xmlStream(Id, Host)
       /\ out[i].via.fd = 2
       /\ out[j].stanza = xmlPresence(Id, "available")
       /\ out[j].via.fd = 2

\* ----------------------------------------------------- recovery properties
\* C21: the send on OnReconnect happens only when the authenticate call of
\* reconnect has returned nil, and when it has returned an error reconnect
\* does not go on to the presence and the notification.
C21_NotifyOnlyOnSuccess ==
  [][/\ notified' # notified => err = "nil"
     /\ (Leaves("authenticate") /\ err # "nil") => lpc' \notin {"status", "notify"}]_vars


\* ---------------------------------------------------- reader task blocking
\* C22: listen of the latest snapshot is never held up anywhere but in its
\* read: when it is at a send on receivedMessage or receivedRooms the channel
\* has room, when it is at its send on recievedHistory a LoadHistory call is
\* receiving, and when it is at its receive from historyLock the lock is
\* held.
C22_OnlyReceiveBlocks ==
  /\ lpc = "sendMessage" => Len(receivedMessage) < MessageChanCap
  /\ lpc = "sendRooms" => Len(receivedRooms) < RoomsChanCap
  /\ lpc = "sendHistory" => \E p \in Callers : pc[p] = "wait"
  /\ lpc = "releaseLock" => historyLock > 0


\* ------------------------------------------------------------ double Close
\* C23: a Close on a transport that is closed already changes nothing and
\* lets its caller go on, be it the Close of reconnect after the one of
\* AliveChecker or the other way round; nothing but a failed dial panics; a
\* Close closes the transport its caller holds and no other, so that the
\* transport reconnect dials afterwards is open when authenticate starts on
\* it; and the read listen makes on the closed transport fails.
C23_CloseTwice ==
  [][/\ (Leaves("close") /\ TransportClosed)
          => closed' = closed /\ lpc' = "sleep" /\ connection' = connection
     /\ (kpc = "close" /\ kpc' # "close" /\ kconn.fd \in closed)
          => closed' = closed /\ kpc' = "select" /\ lpc' = lpc
     /\ lpc' = "panicked" => lpc \in {"dial", "panicked"}
     /\ closed' # closed
          => \/ lpc = "close" /\ closed' = closed \cup {connection.outgoing.fd}
             \/ kpc = "close" /\ closed' = closed \cup {kconn.fd}
     /\ (Leaves("dial") /\ lpc' = "authenticate")
          => connection'.outgoing.fd \notin closed'
     /\ (LoopReads /\ TransportClosed)
          => element' = ZeroElement /\ ReadFailed]_vars

\* AliveChecker and reconnect have both closed the first transport, and
\* reconnect has gone on to dial the second, which is open.
C23_Witness ==
  /\ lpc = "authenticate"
  /\ kconn.fd = 1
  /\ kpc = "select"
  /\ closed = {1}
  /\ connection.outgoing.fd = 2


\* ------------------------------------------ Conn.UseTLS, statement by statement
\* c.outgoing = tls.Client(c.outgoing, ...): the transport is wrapped, the
\* decoder is still the one built over the transport before.
WrapTLS(c) == [c EXCEPT !.outgoing = [c.outgoing EXCEPT !.layers = @ + 1]]

\* c.incoming = xml.NewDecoder(c.outgoing)
NewDecoder(c) == [c EXCEPT !.incoming = [over |-> c.outgoing]]

\* case "proceed": UseTLS is entered and its first statement runs.
ProceedWrap ==
  \E t \in HandshakeTokens :
    /\ AuthRead(t)
    /\ ConnNext(t).err = "nil"
    /\ AuthCase(variant, ConnNext(t).element) = "proceed"
    /\ connection' = WrapTLS(connection)
    /\ apc' = "useTLS"
    /\ last' = "proceed"
    /\ features' = NoFeatures
    /\ UNCHANGED <<out, err>>

\* The second statement of UseTLS, then c.connection.Stream(c.Id, Host).
ProceedDecoder ==
  /\ apc = "useTLS"
  /\ connection' = NewDecoder(connection)
  /\ out' = Write(connection', out, xmlStream(Id, Host))
  /\ apc' = "loop"
  /\ UNCHANGED <<variant, err, element, features, last, lastRead, nread, histVars>>

\* The read loop of src/hipchat.go with its reconnect beside AliveChecker,
\* the statements of UseTLS taken one at a time.
NextUpgrade ==
  \/ LiveReadError
  \/ LiveIq
  \/ LiveInvite
  \/ LiveMessage
  \/ LiveDefault
  \/ LiveSendAlive
  \/ LiveSendMessage
  \/ ReconnectClose
  \/ ReconnectSleep
  \/ ReconnectDial
  \/ AuthStart
  \/ AuthReadError
  \/ AuthStream
  \/ ProceedWrap
  \/ ProceedDecoder
  \/ AuthIq
  \/ AuthDefault
  \/ ReconnectAuthenticated
  \/ ReconnectStatus
  \/ ReconnectNotify
  \/ KeepAlive
  \/ Tick
  \/ AliveTimeout
  \/ AliveClose
  \/ AliveLeave

SpecUpgrade == InitLive /\ [][NextUpgrade]_vars

\* C24: once NewClient has started listen, so that other tasks can use the
\* client's connection, the decoder of the connection is always the one built
\* over the connection's current transport.
C24_DecoderOverTransport ==
  lpc # "off" => connection.incoming.over = connection.outgoing


\* ------------------------------------------ src/unnamed/part_000: Conn.Auth
\* Strings and byte slices are sequences of bytes.  The credentials a run
\* authenticates with: every byte string of at most MaxCred bytes over
\* CredBytes.
CredBytes == {0, 97, 255}
Creds == UNION {[1..n -> CredBytes] : n \in 0..MaxCred}

\* The alphabet of base64.StdEncoding, as byte values: A-Z, a-z, 0-9, + and /.
StdAlphabet(i) ==
  IF i < 26 THEN 65 + i
  ELSE IF i < 52 THEN 97 + (i - 26)
  ELSE IF i < 62 THEN 48 + (i - 52)
  ELSE IF i = 62 THEN 43 ELSE 47
StdPadding == 61

\* base64.StdEncoding.EncodedLen(n)
EncodedLen(n) == ((n + 2) \div 3) * 4

\* The byte Encode puts at place k of dst: the source is taken three bytes
\* at a time as one 24-bit value, of which each output byte shows six bits;
\* a last group of one or two bytes is filled up with the padding byte.
EncodedAt(src, k) ==
  LET g == (k - 1) \div 4
      j == (k - 1) % 4
      have == IF Len(src) - 3 * g >= 3 THEN 3 ELSE Len(src) - 3 * g
      byte(i) == IF i <= have THEN src[3 * g + i] ELSE 0
      val == byte(1) * 65536 + byte(2) * 256 + byte(3)
      shift == IF j = 0 THEN 262144 ELSE IF j = 1 THEN 4096 ELSE IF j = 2 THEN 64 ELSE 1
  IN IF j <= have THEN StdAlphabet((val \div shift) % 64) ELSE StdPadding

\* base64.StdEncoding.Encode(dst, src): writes EncodedLen(len(src)) bytes.
StdEncode(dst, src) ==
  [k \in 1..Len(dst) |->
     IF k <= EncodedLen(Len(src)) THEN EncodedAt(src, k) ELSE dst[k]]

\* A raw string without the leading NUL.
AuthRawNoLead(user, pass) == user \o <<0>> \o pass

\* raw := "\x00" + user + "\x00" + pass
AuthRaw(user, pass) == <<0>> \o user \o <<0>> \o pass

\* enc as Conn.Auth hands it to Fprintf.
AuthEnc(user, pass) ==
  LET raw == AuthRaw(user, pass)
      enc == [k \in 1..EncodedLen(Len(raw)) |-> 0]
  IN StdEncode(enc, raw)

\* xmlAuth filled in with the namespace and enc.
xmlAuthEnc(enc) ==
  [kind |-> "auth", xmlns |-> NsSASL, mechanism |-> "PLAIN", body |-> enc]

\* The strings Client.Username and Client.Password in memory.
Username == heap[2]
Password == heap[3]

\* c.connection.Auth(c.Username, c.Password)
ConnAuth ==
  /\ apc = "start"
  /\ out' = Write(connection, out, xmlAuthEnc(AuthEnc(Username, Password)))
  /\ apc' = "returned"
  /\ UNCHANGED <<variant, connection, err, element, features, last, lastRead,
                 nread, histVars>>

\* A client of the latest snapshot with some credentials, about to send its
\* SASL auth request.
InitEncode ==
  /\ variant = "sasl"
  /\ connection = UseTLS(Dial)
  /\ out = <<>>
  /\ apc = "start"
  /\ err = "none"
  /\ element = ZeroElement
  /\ features = NoFeatures
  /\ last = "none"
  /\ lastRead = connection.incoming
  /\ nread = 0
  /\ lpc = "off"
  /\ m = ZeroIncoming
  /\ \E user \in Creds, pass \in Creds : heap = << <<>>, user, pass >>
  /\ messageBuffer = [array |-> 1, len |-> 0]
  /\ historyLock = 0
  /\ receivedMessage = <<>>
  /\ receivedRooms = <<>>
  /\ Closed = FALSE
  /\ pc = [p \in Callers |-> "idle"]
  /\ ret = [p \in Callers |-> NoSlice]
  /\ calls = [p \in Callers |-> 0]
  /\ win = [p \in Callers |-> <<>>]
  /\ npc = "auth"
  /\ nerr = "none"
  /\ NoSupervision

NextEncode == ConnAuth

SpecEncode == InitEncode /\ [][NextEncode]_vars

\* ------------------------------------------------- credential encoding
\* The six bits a base64 character stands for.
Sextet(c) == CHOOSE i \in 0..63 : StdAlphabet(i) = c

\* The characters of a body before its padding.
Unpadded(body) == SelectSeq(body, LAMBDA c : c # StdPadding)

\* Bit b, counted from 0, of the bit string a sequence of base64 characters
\* stands for.
BitAt(chars, b) ==
  LET s == Sextet(chars[(b \div 6) + 1])
      k == 5 - (b % 6)
  IN (s \div (2 ^ k)) % 2

\* Byte i of that bit string.
ByteAt(chars, i) ==
  LET b == 8 * (i - 1)
  IN 128 * BitAt(chars, b) + 64 * BitAt(chars, b + 1) + 32 * BitAt(chars, b + 2)
     + 16 * BitAt(chars, b + 3) + 8 * BitAt(chars, b + 4) + 4 * BitAt(chars, b + 5)
     + 2 * BitAt(chars, b + 6) + BitAt(chars, b + 7)

\* body is the standard base64 encoding of raw: four characters for every
\* three bytes begun, characters of the alphabet followed by the padding
\* that fills the last four, the bits of the characters being those of raw
\* followed by zeros.
IsBase64Of(body, raw) ==
  LET chars == Unpadded(body)
  IN /\ Len(body) = 4 * ((Len(raw) + 2) \div 3)
     /\ Len(chars) = (8 * Len(raw) + 5) \div 6
     /\ \A k \in 1..Len(body) :
          IF k <= Len(chars)
            THEN \E i \in 0..63 : StdAlphabet(i) = body[k]
            ELSE body[k] = StdPadding
     /\ \A i \in 1..Len(raw) : ByteAt(chars, i) = raw[i]
     /\ \A b \in (8 * Len(raw))..(6 * Len(chars) - 1) : BitAt(chars, b) = 0

\* C25: the body of every SASL auth request written is the standard base64
\* encoding of a NUL byte, the username, a NUL byte and the password.
C25_AuthBodyIsBase64 ==
  \A i \in 1..Len(out) :
    out[i].stanza.kind = "auth"
      => IsBase64Of(out[i].stanza.body, <<0>> \o Username \o <<0>> \o Password)

\* An auth request has been written for a username and a password that
\* leave a last group of two bytes, so that the body ends in one padding.
C25_Witness ==
  /\ apc = "returned"
  /\ Len(out) = 1
  /\ out[1].stanza.kind = "auth"
  /\ Username = <<97, 255>>
  /\ Password = <<255>>
  /\ out[1].stanza.body = <<65, 71, 72, 47, 65, 80, 56, 61>>


\* ------------------------------------- listen beside a server that answers
\* Conn.Next hands listen a <message> of the server's answer to an archive
\* query that is waiting.  The count of reads stops at MaxListenReads.
ServedRead ==
  /\ lpc = "read"
  /\ \E p \in Callers : pc[p] = "wait"
  /\ nread' = (IF nread < MaxListenReads THEN nread + 1 ELSE nread)
  /\ lastRead' = connection.incoming
  /\ element' = El("message", NsJabberClient, <<>>, TRUE)
  /\ UNCHANGED <<authVars, connection, out, historyLock, receivedMessage,
                 receivedRooms, pc, ret, calls, Closed>>

\* One archive result of the answer: appended to messageBuffer.
ServedResult ==
  \E w \in {Wire("", "absent", NoX, Fwd1)} :
    /\ ServedRead
    /\ MessageBranch(ConnMessage(w)) = "result"
    /\ m' = ConnMessage(w)
    /\ messageBuffer.len < MaxBuf
    /\ LET msg == BuildMessage(ForwardedMessage(ConnMessage(w).Result.Body).Message)
           app == GoAppend(heap, messageBuffer, msg)
       IN /\ heap' = app.heap
          /\ messageBuffer' = app.slice
          /\ win' = [p \in Callers |->
                       IF pc[p] = "wait" THEN Append(win[p], msg) ELSE win[p]]
    /\ UNCHANGED lpc

\* The end-of-archive marker of the answer: listen goes on to send on
\* recievedHistory.
ServedFin ==
  /\ ServedRead
  /\ MessageBranch(ConnMessage(Wire("", "set", NoX, ""))) = "fin"
  /\ m' = ConnMessage(Wire("", "set", NoX, ""))
  /\ lpc' = "sendHistory"
  /\ UNCHANGED <<heap, messageBuffer, win>>

\* A live message among the answers.
ServedLive ==
  /\ ListenLive
  /\ m' = ConnMessage(Wire("hi", "absent", NoX, ""))

\* listen of the latest snapshot on a connection that stays up, beside a
\* server that sends archive results and the end-of-archive marker only as
\* the answer to a query, and an application that receives.
NextServed ==
  \/ ServedResult
  \/ ServedFin
  \/ ServedLive
  \/ ListenInvite
  \/ SendMessage
  \/ SendRooms
  \/ \E p \in Callers : SendHistory(p)
  \/ ClearBuffer
  \/ ReleaseLock
  \/ \E p \in Askers : Call(p)
  \/ \E p \in Callers : Acquire(p)
  \/ \E p \in Callers : WriteQuery(p)
  \/ RecvMessage
  \/ RecvRooms

\* Every goroutine that can take its next step takes it in the end, the
\* application receives from a channel that holds a value, and the server
\* sends the marker of an answer it owes.
FairServed ==
  /\ WF_vars(ServedFin)
  /\ WF_vars(SendMessage)
  /\ WF_vars(SendRooms)
  /\ WF_vars(\E p \in Callers : SendHistory(p))
  /\ WF_vars(ClearBuffer)
  /\ WF_vars(ReleaseLock)
  /\ \A p \in Callers : WF_vars(Acquire(p))
  /\ \A p \in Callers : WF_vars(WriteQuery(p))
  /\ WF_vars(RecvMessage)
  /\ WF_vars(RecvRooms)

SpecServed == InitListen /\ [][NextServed]_vars /\ FairServed

\* ------------------------------------------------------ history liveness
\* C26: on a connection that stays up, with an application that receives
\* and a server that answers each archive query with archive results and
\* then one end-of-archive marker, a LoadHistory call that has started
\* returns in the end.
C26_HistoryReturns ==
  \A p \in Callers : (pc[p] # "idle") ~> (pc[p] = "idle")

\* Both tasks have made all their LoadHistory calls and every one has
\* returned, the last with the archive results of its answer.
C26_Witness ==
  /\ \A p \in Callers : calls[p] = MaxCalls /\ pc[p] = "idle"
  /\ \E p \in Callers : ret[p].len > 0


\* ------------------------------------------------------- returned lists
\* C27: the elements of the list a LoadHistory call returned stay as they
\* were returned for as long as the caller holds that list, whatever listen
\* reads and appends afterwards.
C27_ReturnedListKept ==
  [][\A p \in Callers :
       ret'[p] = ret[p] => View(heap', ret[p]) = View(heap, ret[p])]_vars


\* ----------------------------------- src/unnamed/part_001: Client.Close
\* The statements of Close after the log line, in program order.  The task
\* that called NewClient calls Close; npc tells the statement it is at.
CloseSteps == <<"returned", "setClosed", "closeMessage", "closeRooms",
                "closeHistory", "closeUsers", "closed">>
StepOf(step) == CHOOSE i \in 1..7 : CloseSteps[i] = step

\* close(ch) of Close has run for the channel closed at statement step.
ChanClosed(step) == StepOf(npc) > StepOf(step)

\* One statement of Close.
CloseStep(step) ==
  /\ npc = step
  /\ npc' = CloseSteps[StepOf(step) + 1]
  /\ UNCHANGED <<variant, connection, out, apc, err, element, features, last,
                 lastRead, nread, lpc, m, heap, messageBuffer, historyLock,
                 receivedMessage, receivedRooms, pc, ret, calls, win, nerr,
                 kpc, kconn, window, inbox, notified>>

\* c.connection.Close()
CloseConnection ==
  /\ CloseStep("returned")
  /\ closed' = closed \cup {connection.outgoing.fd}
  /\ UNCHANGED Closed

\* c.Closed = true
CloseSetClosed ==
  /\ CloseStep("setClosed")
  /\ Closed' = TRUE
  /\ UNCHANGED closed

\* close(c.receivedMessage), close(c.receivedRooms),
\* close(c.recievedHistory), close(c.receivedUsers)
CloseChannel ==
  \E step \in {"closeMessage", "closeRooms", "closeHistory", "closeUsers"} :
    /\ CloseStep(step)
    /\ UNCHANGED <<closed, Closed>>

\* listen is at a send on a channel that Close has closed: the send panics.
SendOnClosed ==
  /\ \/ lpc = "sendMessage" /\ ChanClosed("closeMessage")
     \/ lpc = "sendRooms" /\ ChanClosed("closeRooms")
     \/ lpc = "sendHistory" /\ ChanClosed("closeHistory")
  /\ lpc' = "panicked"
  /\ UNCHANGED <<listenOnly, m, heap, messageBuffer, historyLock,
                 receivedMessage, receivedRooms, Closed, pc, ret, calls, win>>

\* <-c.recievedHistory on the closed channel: LoadHistory returns nil.
RecvClosedHistory(p) ==
  /\ pc[p] = "wait"
  /\ ChanClosed("closeHistory")
  /\ lpc # "panicked"
  /\ ret' = [ret EXCEPT ![p] = NoSlice]
  /\ pc' = [pc EXCEPT ![p] = "idle"]
  /\ UNCHANGED <<listenOnly, lpc, m, heap, messageBuffer, historyLock,
                 receivedMessage, receivedRooms, Closed, calls, win>>

\* listen and the LoadHistory callers of the latest snapshot beside a task
\* that calls Close.  A read succeeds on an open transport only, and a send
\* goes through on an open channel only.
NextClose ==
  \/ ListenReadError
  \/ ~TransportClosed /\ ListenIq
  \/ ~TransportClosed /\ ListenDefault
  \/ ~TransportClosed /\ ListenLive
  \/ ~TransportClosed /\ ListenFin
  \/ ~TransportClosed /\ ListenInvite
  \/ ~TransportClosed /\ ListenResult
  \/ ~TransportClosed /\ ListenNone
  \/ ~ChanClosed("closeMessage") /\ SendMessage
  \/ ~ChanClosed("closeRooms") /\ SendRooms
  \/ \E p \in Callers : ~ChanClosed("closeHistory") /\ SendHistory(p)
  \/ SendOnClosed
  \/ ClearBuffer
  \/ ReleaseLock
  \/ \E p \in Callers : Call(p)
  \/ \E p \in Callers : Acquire(p)
  \/ \E p \in Callers : WriteQuery(p)
  \/ \E p \in Callers : RecvClosedHistory(p)
  \/ RecvMessage
  \/ RecvRooms
  \/ CloseConnection
  \/ CloseSetClosed
  \/ CloseChannel

SpecClose == InitListen /\ [][NextClose]_vars

\* C28: whenever Close runs beside listen, listen never sends on a channel
\* Close has closed, and when listen has returned Closed is true.
C28_CloseIsSafe ==
  /\ lpc # "panicked"
  /\ lpc = "returned" => Closed = TRUE


\* ------------------------------------------------------ what Rooms() returns
\* C29: a Rooms() call returns only with the list listen decoded from the
\* reply to a room query, never with the one-room list made from an
\* invitation.
C29_RoomsFromQueryOnly ==
  [][\A p \in Callers :
       (pc[p] = "waitRooms" /\ pc'[p] = "idle")
         => /\ m.origin = "query"
            /\ m.space = NsMucRoom
            /\ ret'[p] = m.items]_vars


\* ---------------------------------- src/hipchat.go: the ticker of KeepAlive
NsMuc == "http://jabber.org/protocol/muc"
xmlMUCPresence(roomId, jid, history) ==
  [kind |-> "join", to |-> roomId, from |-> jid, xmlns |-> NsMuc,
   maxstanzas |-> history]

IsJoin(w) == w.stanza.kind = "join"
Joined == Len(SelectSeq(out, IsJoin))

\* for _ = range time.Tick(2 * time.Minute): c.Join("1_default@"+Conf,
\* nickname, 1), in the task that called KeepAlive and started AliveChecker.
\* The stanza goes to the connection the client holds at that moment.
TickerJoin ==
  /\ Running
  /\ kpc # "off"
  /\ Joined < MaxJoins
  /\ out' = Write(connection, out, xmlMUCPresence("1_default@" \o Conf \o "/bot", Id, 1))
  /\ UNCHANGED <<liveOnly, apc, connection, lpc, m, pc, ret, calls, liveVars>>

\* The read loop of src/hipchat.go with its reconnect, beside the two tasks
\* of KeepAlive: the ticker and AliveChecker.
NextWriters ==
  \/ LiveReadError
  \/ LiveIq
  \/ LiveInvite
  \/ LiveMessage
  \/ LiveDefault
  \/ LiveSendAlive
  \/ LiveSendMessage
  \/ ReconnectClose
  \/ ReconnectSleep
  \/ ReconnectDial
  \/ AuthStart
  \/ AuthReadError
  \/ AuthStream
  \/ AuthProceed
  \/ AuthIq
  \/ AuthDefault
  \/ ReconnectAuthenticated
  \/ ReconnectStatus
  \/ ReconnectNotify
  \/ KeepAlive
  \/ Tick
  \/ AliveTimeout
  \/ AliveClose
  \/ AliveLeave
  \/ TickerJoin

SpecWriters == InitLive /\ [][NextWriters]_vars

\* ----------------------------------------------------------- one writer
\* listen is inside reconnect: the connection is being replaced.
Reconnecting ==
  lpc \in {"close", "sleep", "dial", "authenticate", "status", "notify"}

\* The ticker or AliveChecker writes in this step.
OtherTaskWrites ==
  /\ Wrote # <<>>
  /\ Wrote[1].stanza.kind \in {"join", "unavailable"}

\* C30: the ticker and AliveChecker write only while listen is not inside
\* reconnect, where the reader task writes its handshake and its presence,
\* and what any of the three writes goes to a transport that is open.
C30_OneWriter ==
  [][/\ OtherTaskWrites => ~Reconnecting
     /\ \A i \in 1..Len(Wrote) : Wrote[i].via.fd \notin closed]_vars

====
